---- MODULE Spec2Model ----
(***************************************************************************)
(* A model of JLens' project parser (src/java_parser.py): the class        *)
(* JavaProjectParser, its scan parse_project and the extractors it runs on *)
(* every collected Java file.                                              *)
(*                                                                         *)
(* Python strings are TLA+ strings (TLC evaluates Len, \o and SubSeq on    *)
(* them).  A dict is a sequence of [key, value] records in insertion       *)
(* order.  A javalang syntax tree is a record: only the attributes the     *)
(* parser reads are kept.  A Python call that can raise is an operator     *)
(* that returns a record with a field raised.                              *)
(***************************************************************************)
EXTENDS Integers, Sequences, FiniteSets, TLC

(***************************************************************************)
(* Bounds of the model.                                                    *)
(***************************************************************************)
MaxFiles == 2
MaxScans == 2
MaxMethods == 2

(***************************************************************************)
(* str methods and os.path functions.                                      *)
(***************************************************************************)
\* s[a-1:b]: the characters a to b of s, as far as s has them
Slice(s, a, b) ==
    LET lo == IF a < 1 THEN 1 ELSE a
        hi == IF b > Len(s) THEN Len(s) ELSE b
    IN IF lo > hi THEN "" ELSE SubSeq(s, lo, hi)

\* s.startswith(p)
StartsWith(s, p) == Len(s) >= Len(p) /\ SubSeq(s, 1, Len(p)) = p

\* s.endswith(p)
EndsWith(s, p) == Len(s) >= Len(p) /\ SubSeq(s, Len(s) - Len(p) + 1, Len(s)) = p

\* p in s
Contains(s, p) == \E i \in 1..(Len(s) - Len(p) + 1) : SubSeq(s, i, i + Len(p) - 1) = p

\* s.strip(ch): every leading and every trailing ch is removed
Strip(s, ch) ==
    LET RECURSIVE LStrip(_)
        LStrip(t) == IF Len(t) > 0 /\ SubSeq(t, 1, 1) = ch
                     THEN LStrip(SubSeq(t, 2, Len(t))) ELSE t
        RECURSIVE RStrip(_)
        RStrip(t) == IF Len(t) > 0 /\ SubSeq(t, Len(t), Len(t)) = ch
                     THEN RStrip(SubSeq(t, 1, Len(t) - 1)) ELSE t
    IN RStrip(LStrip(s))

\* os.path.join(a, b) for a relative b
PathJoin(a, b) == a \o "/" \o b

\* os.path.relpath(p, start) for a p that lies under start
RelPath(p, start) == IF p = start THEN "." ELSE Slice(p, Len(start) + 2, Len(p))

\* The directory the parser is constructed on.
ProjectPath == "/proj"

(***************************************************************************)
(* javalang trees.  An annotation's element is None (kind "none"), a       *)
(* Literal (kind "literal", value the token's text with its quotes), a     *)
(* list of ElementValuePair (kind "pairs") or another expression node,     *)
(* which has no attribute value (kind "node").                             *)
(***************************************************************************)
NoElement == [kind |-> "none", value |-> "", pairs |-> <<>>]
Literal(text) == [kind |-> "literal", value |-> text, pairs |-> <<>>]
Pairs(ps) == [kind |-> "pairs", value |-> "", pairs |-> ps]
OtherNode == [kind |-> "node", value |-> "", pairs |-> <<>>]
Pair(n, text) == [name |-> n, value |-> text]
Annotation(n, e) == [name |-> n, element |-> e]

\* A value a call returned, and a call that raised.
Returned(v) == [raised |-> FALSE, value |-> v]
Raised == [raised |-> TRUE, value |-> ""]

\* _extract_annotation_value(annotation) for an Annotation.  Every pair of a
\* pairs list holds an expression node in value, which is truthy and has no
\* method strip: the list branch raises AttributeError on its first pair.
ExtractAnnotationValue(annotation) ==
    LET e == annotation.element IN
    CASE e.kind = "none"    -> Returned("")
      [] e.kind = "pairs"   -> Raised
      [] e.kind = "literal" -> IF e.value # ""
                               THEN Returned(Strip(e.value, "\""))
                               ELSE Returned("")
      [] OTHER              -> Returned("")

\* _extract_annotation_value(elem) for an ElementValuePair, which has no
\* attribute element: the hasattr test fails and "" is returned.
ExtractPairValue(elem) == ""

(***************************************************************************)
(* dicts: a sequence of [key, value] records in insertion order.           *)
(***************************************************************************)
DictHas(d, k) == \E i \in DOMAIN d : d[i].key = k

DictIndex(d, k) == CHOOSE i \in DOMAIN d : d[i].key = k

DictGet(d, k) == d[DictIndex(d, k)].value

\* d[k] = v: an existing key keeps its place
DictSet(d, k, v) ==
    IF DictHas(d, k)
    THEN [d EXCEPT ![DictIndex(d, k)] = [key |-> k, value |-> v]]
    ELSE Append(d, [key |-> k, value |-> v])

\* d[k].append(v) on a defaultdict(list)
DictAppend(d, k, v) ==
    IF DictHas(d, k) THEN DictSet(d, k, Append(DictGet(d, k), v)) ELSE DictSet(d, k, <<v>>)

(***************************************************************************)
(* _extract_apis.  A tree is [package, imports, classes]: classes are the  *)
(* ClassDeclaration nodes in the order tree.filter yields them.            *)
(***************************************************************************)
RestControllerAnnotations == {"RestController", "Controller", "Path", "WebServlet"}

ClassPathAnnotations == {"RequestMapping", "Path"}

RestMethods == {"GetMapping", "PostMapping", "PutMapping", "DeleteMapping",
                "RequestMapping", "GET", "POST", "PUT", "DELETE"}

\* A class with a class-level RequestMapping counts as a controller too
IsRestControllerOrMapped(node) ==
    \E i \in DOMAIN node.annotations :
        node.annotations[i].name \in
            {"RestController", "Controller", "Path", "WebServlet", "RequestMapping"}

IsRestController(node) ==
    \E i \in DOMAIN node.annotations : node.annotations[i].name \in RestControllerAnnotations

\* The loop over node.annotations that sets class_path.  On a pairs list
\* annotation.element.value raises AttributeError (a list has no attribute
\* value), and so it does on an expression node that is not a Literal.
RECURSIVE ClassPathFrom(_, _, _)
ClassPathFrom(annotations, i, class_path) ==
    IF i > Len(annotations) THEN Returned(class_path)
    ELSE LET annotation == annotations[i] IN
         IF annotation.name \notin ClassPathAnnotations
         THEN ClassPathFrom(annotations, i + 1, class_path)
         ELSE CASE annotation.element.kind = "none" ->
                       ClassPathFrom(annotations, i + 1, class_path)
                [] annotation.element.kind = "literal" ->
                       IF annotation.element.value # ""
                       THEN ClassPathFrom(annotations, i + 1,
                                          ExtractAnnotationValue(annotation).value)
                       ELSE ClassPathFrom(annotations, i + 1, class_path)
                [] OTHER -> Raised

ClassPath(node) == ClassPathFrom(node.annotations, 1, "")

\* The loop over the pairs of a method's RequestMapping.
RECURSIVE RequestMappingPairs(_, _, _)
RequestMappingPairs(pairs, i, m) ==
    IF i > Len(pairs) THEN m
    ELSE LET elem == pairs[i] IN
         RequestMappingPairs(pairs, i + 1,
             IF elem.name = "method"
             THEN [m EXCEPT !.http_method = ExtractPairValue(elem)]
             ELSE IF elem.name = "value" \/ elem.name = "path"
                  THEN [m EXCEPT !.method_path = ExtractPairValue(elem)]
                  ELSE m)

\* What a per-verb mapping annotation or a Path sets, given the value v that
\* _extract_annotation_value returned or the fact that it raised
MappedTo(m, v, verb) ==
    IF v.raised THEN [raised |-> TRUE, value |-> m]
    ELSE Returned([http_method |-> verb, method_path |-> v.value])

\* http_method and method_path after one annotation of the method.  Iterating
\* a RequestMapping element that is a node yields (path, node) tuples, and
\* elem.name raises AttributeError on the first.
MappingStep(annotation, m) ==
    CASE annotation.name = "RequestMapping" ->
             CASE annotation.element.kind = "none"  -> Returned(m)
               [] annotation.element.kind = "pairs" ->
                      Returned(RequestMappingPairs(annotation.element.pairs, 1, m))
               [] OTHER -> [raised |-> TRUE, value |-> m]
      [] annotation.name = "GetMapping" ->
             MappedTo(m, ExtractAnnotationValue(annotation), "GET")
      [] annotation.name = "PostMapping" ->
             MappedTo(m, ExtractAnnotationValue(annotation), "POST")
      [] annotation.name = "PutMapping" ->
             MappedTo(m, ExtractAnnotationValue(annotation), "PUT")
      [] annotation.name = "DeleteMapping" ->
             MappedTo(m, ExtractAnnotationValue(annotation), "DELETE")
      [] annotation.name \in {"GET", "POST", "PUT", "DELETE"} ->
             Returned([m EXCEPT !.http_method = annotation.name])
      [] annotation.name = "Path" ->
             MappedTo(m, ExtractAnnotationValue(annotation), m.http_method)
      [] OTHER -> Returned(m)

\* The loop over method.annotations: r holds http_method and method_path so
\* far, or the fact that an annotation raised
RECURSIVE MappingFrom(_, _, _)
MappingFrom(annotations, i, r) ==
    IF i > Len(annotations) \/ r.raised THEN r
    ELSE MappingFrom(annotations, i + 1, MappingStep(annotations[i], r.value))

\* http_method = "GET" and method_path = "", then the loop over method.annotations
Mapping(method) ==
    MappingFrom(method.annotations, 1,
                Returned([http_method |-> "GET", method_path |-> ""]))

IsApiMethod(method, is_rest_controller) ==
    \/ \E i \in DOMAIN method.annotations : method.annotations[i].name \in RestMethods
    \/ is_rest_controller

\* A join that keeps one slash between the two paths
FullPathNormalised(class_path, method_path) ==
    IF method_path = "" THEN class_path
    ELSE Strip(class_path, "/") \o "/" \o Strip(method_path, "/")

\* full_path = class_path + method_path if method_path else class_path
FullPath(class_path, method_path) ==
    IF method_path # "" THEN class_path \o method_path ELSE class_path

\* self.apis.append({...}) with the mapping m of the method, unless the loop
\* over its annotations raised
AppendApi(class_name, method, class_path, file_path, acc, m) ==
    IF m.raised THEN [raised |-> TRUE, value |-> acc]
    ELSE Returned(Append(acc, [class       |-> class_name,
                               method      |-> method.name,
                               http_method |-> m.value.http_method,
                               path        |-> FullPath(class_path, m.value.method_path),
                               file        |-> file_path]))

\* The body of the loop over node.methods
ApiOfMethod(class_name, method, class_path, is_rest_controller, file_path, acc) ==
    IF ~IsApiMethod(method, is_rest_controller) THEN Returned(acc)
    ELSE AppendApi(class_name, method, class_path, file_path, acc, Mapping(method))

\* The loop over node.methods: r holds self.apis as far as this call of
\* _extract_apis extended it
RECURSIVE ApisOfMethods(_, _, _, _, _, _)
ApisOfMethods(node, class_path, is_rest_controller, file_path, j, r) ==
    IF j > Len(node.methods) \/ r.raised THEN r
    ELSE ApisOfMethods(node, class_path, is_rest_controller, file_path, j + 1,
             ApiOfMethod(node.name, node.methods[j], class_path, is_rest_controller,
                         file_path, r.value))

\* The methods of one class, once its class_path cp is known or has raised
ApisWithClassPath(node, file_path, acc, cp) ==
    IF cp.raised THEN [raised |-> TRUE, value |-> acc]
    ELSE ApisOfMethods(node, cp.value, IsRestController(node), file_path, 1, Returned(acc))

\* The loop over the classes of the tree
RECURSIVE ApisOfClasses(_, _, _, _)
ApisOfClasses(tree, file_path, k, r) ==
    IF k > Len(tree.classes) \/ r.raised THEN r
    ELSE ApisOfClasses(tree, file_path, k + 1,
             ApisWithClassPath(tree.classes[k], file_path, r.value,
                               ClassPath(tree.classes[k])))

\* _extract_apis(tree, file_path): the facts appended to self.apis, up to the
\* place where the call raised when it did.
ExtractApis(tree, file_path) == ApisOfClasses(tree, file_path, 1, Returned(<<>>))

(***************************************************************************)
(* _extract_functions.                                                     *)
(***************************************************************************)
RECURSIVE Parameters(_, _)
Parameters(parameters, i) ==
    IF i > Len(parameters) THEN <<>>
    ELSE <<parameters[i].type \o " " \o parameters[i].name>> \o Parameters(parameters, i + 1)

\* Only the private methods without annotations are skipped
SkipsMethodUnannotated(method) ==
    "private" \in method.modifiers /\ method.annotations = <<>>

\* if method.modifiers and 'private' in method.modifiers: continue
SkipsMethod(method) == "private" \in method.modifiers

\* return_type is None for a void method
ReturnType(method) == IF method.return_type # "" THEN method.return_type ELSE "void"

MethodFact(method, file_path) ==
    [name        |-> method.name,
     return_type |-> ReturnType(method),
     parameters  |-> Parameters(method.parameters, 1),
     file        |-> file_path]

RECURSIVE FunctionsOfMethods(_, _, _, _)
FunctionsOfMethods(node, file_path, j, fns) ==
    IF j > Len(node.methods) THEN fns
    ELSE FunctionsOfMethods(node, file_path, j + 1,
             IF SkipsMethod(node.methods[j]) THEN fns
             ELSE DictAppend(fns, node.name, MethodFact(node.methods[j], file_path)))

RECURSIVE FunctionsOfClasses(_, _, _, _)
FunctionsOfClasses(tree, file_path, k, fns) ==
    IF k > Len(tree.classes) THEN fns
    ELSE FunctionsOfClasses(tree, file_path, k + 1,
                            FunctionsOfMethods(tree.classes[k], file_path, 1, fns))

\* _extract_functions(tree, file_path): self.functions after the call
ExtractFunctions(tree, file_path, fns) == FunctionsOfClasses(tree, file_path, 1, fns)

(***************************************************************************)
(* _extract_batch_processes.                                               *)
(***************************************************************************)
BatchAnnotations == {"Scheduled", "Schedule", "Quartz", "BatchJob", "Job"}

BatchClassPatterns == {"BatchJob", "Job", "Processor", "Reader", "Writer", "TaskExecutor",
                       "Scheduler", "QuartzJob"}

\* The value of a key that batch_details does not hold.
Absent == "<absent>"

\* batch_details as it is created
NewBatchDetails(file_path) ==
    [file |-> file_path, type |-> "Unknown", details |-> "", class |-> Absent,
     method |-> Absent]

\* any(pattern in class_name for pattern in batch_class_patterns)
MatchesBatchClassPattern(class_name) ==
    \E pattern \in BatchClassPatterns : Contains(class_name, pattern)

\* batch_details after the assignments of class, method and type for a batch
\* annotation of a class (method_name = Absent) or of a method
BatchMarked(batch_details, annotation, class_name, method_name) ==
    [batch_details EXCEPT
        !.class  = class_name,
        !.method = IF method_name = Absent THEN @ ELSE method_name,
        !.type   = IF method_name = Absent
                   THEN "Batch Class (" \o annotation.name \o ")"
                   ELSE "Scheduled Method (" \o annotation.name \o ")"]

\* batch_details['details'] = self._extract_annotation_value(annotation)
BatchWithDetails(batch_details, v) ==
    IF v.raised THEN Raised
    ELSE Returned([is_batch_process |-> TRUE,
                   batch_details |-> [batch_details EXCEPT !.details = v.value]])

\* One annotation of a class or of a method.  b is [is_batch_process,
\* batch_details].
BatchAnnotationStep(annotation, class_name, method_name, b) ==
    IF annotation.name \notin BatchAnnotations THEN Returned(b)
    ELSE IF annotation.element.kind = "none"
         THEN Returned([is_batch_process |-> TRUE,
                        batch_details |-> BatchMarked(b.batch_details, annotation,
                                                      class_name, method_name)])
         ELSE BatchWithDetails(BatchMarked(b.batch_details, annotation, class_name,
                                           method_name),
                               ExtractAnnotationValue(annotation))

\* The loop over the annotations of a class or of a method: r holds b so far,
\* or the fact that an annotation raised
RECURSIVE BatchAnnotationsFrom(_, _, _, _, _)
BatchAnnotationsFrom(annotations, i, class_name, method_name, r) ==
    IF i > Len(annotations) \/ r.raised THEN r
    ELSE BatchAnnotationsFrom(annotations, i + 1, class_name, method_name,
             BatchAnnotationStep(annotations[i], class_name, method_name, r.value))

\* The loop over node.methods
RECURSIVE BatchOfMethods(_, _, _)
BatchOfMethods(node, j, r) ==
    IF j > Len(node.methods) \/ r.raised THEN r
    ELSE BatchOfMethods(node, j + 1,
             BatchAnnotationsFrom(node.methods[j].annotations, 1, node.name,
                                  node.methods[j].name, r))

\* The class name check of one class
BatchClassName(node, b) ==
    IF MatchesBatchClassPattern(node.name)
    THEN [is_batch_process |-> TRUE,
          batch_details |-> [b.batch_details EXCEPT !.class = node.name,
                                                    !.type = "Batch Class"]]
    ELSE b

\* The body of the loop over the classes: the name, the annotations of the
\* class, then its methods
BatchOfClass(node, b) ==
    BatchOfMethods(node, 1,
        BatchAnnotationsFrom(node.annotations, 1, node.name, Absent,
                             Returned(BatchClassName(node, b))))

RECURSIVE BatchOfClasses(_, _, _)
BatchOfClasses(tree, k, r) ==
    IF k > Len(tree.classes) \/ r.raised THEN r
    ELSE BatchOfClasses(tree, k + 1, BatchOfClass(tree.classes[k], r.value))

\* '<job' in content or '<step' in content or '<tasklet' in content
HasBatchMarkup(content) ==
    Contains(content, "<job") \/ Contains(content, "<step") \/ Contains(content, "<tasklet")

CharAt(s, i) == Slice(s, i, i)

\* <job[^>]*id=['"](.*?)['"] matched with <job at s, id= at p and the closing
\* quote at q
JobMatchAt(content, s, p, q) ==
    /\ Slice(content, s, s + 3) = "<job"
    /\ p >= s + 4
    /\ \A i \in (s + 4)..(p - 1) : CharAt(content, i) # ">"
    /\ Slice(content, p, p + 2) = "id="
    /\ CharAt(content, p + 3) \in {"'", "\""}
    /\ q >= p + 4 /\ q <= Len(content)
    /\ CharAt(content, q) \in {"'", "\""}
    /\ \A i \in (p + 4)..(q - 1) : CharAt(content, i) # "\n"

SetMin(S) == CHOOSE x \in S : \A y \in S : x <= y

SetMax(S) == CHOOSE x \in S : \A y \in S : x >= y

\* re.search(r'<job[^>]*id=[\'"](.*?)[\'"]', content): the leftmost <job that
\* matches, its greedy [^>]* and its lazy group
JobMatch(content) ==
    LET Pos == 1..Len(content)
        Jobs == {s \in Pos : Slice(content, s, s + 3) = "<job"}
        Ids == {p \in Pos : Slice(content, p, p + 2) = "id="}
        Quotes == {q \in Pos : CharAt(content, q) \in {"'", "\""}}
        S == {s \in Jobs : \E p \in Ids : \E q \in Quotes : JobMatchAt(content, s, p, q)}
    IN
    IF S = {} THEN [found |-> FALSE, group |-> ""]
    ELSE LET s == SetMin(S)
             p == SetMax({x \in Ids : \E q \in Quotes : JobMatchAt(content, s, x, q)})
             q == SetMin({x \in Quotes : JobMatchAt(content, s, p, x)})
         IN [found |-> TRUE, group |-> Slice(content, p + 4, q - 1)]

\* batch_details after the check for Spring Batch XML configuration, given the
\* result job_match of the search for a job id
BatchWithJob(b, job_match) ==
    [is_batch_process |-> TRUE,
     batch_details |->
         [b.batch_details EXCEPT
             !.type = "Spring Batch XML Configuration",
             !.details = IF job_match.found THEN "Job ID: " \o job_match.group ELSE @]]

\* A markup check that leaves a type set by an earlier rule alone
BatchMarkupUnlessMarked(content, b) ==
    IF HasBatchMarkup(content) /\ ~b.is_batch_process
    THEN BatchWithJob(b, JobMatch(content)) ELSE b

\* The check for Spring Batch XML configuration
BatchMarkup(content, b) ==
    IF HasBatchMarkup(content) THEN BatchWithJob(b, JobMatch(content)) ELSE b

\* if is_batch_process: self.batch_processes.append(batch_details)
BatchAppended(b) == IF b.is_batch_process THEN <<b.batch_details>> ELSE <<>>

\* The end of _extract_batch_processes, given the result r of the loop over
\* the classes
BatchAfterClasses(content, r) ==
    IF r.raised THEN [raised |-> TRUE, value |-> <<>>]
    ELSE Returned(BatchAppended(BatchMarkup(content, r.value)))

\* _extract_batch_processes(tree, file_path, content): the facts the call
\* appends to self.batch_processes; nothing is appended when it raises
ExtractBatchProcesses(tree, file_path, content) ==
    BatchAfterClasses(content,
        BatchOfClasses(tree, 1, Returned([is_batch_process |-> FALSE,
                                          batch_details |-> NewBatchDetails(file_path)])))

(***************************************************************************)
(* _analyze_dependencies.                                                  *)
(***************************************************************************)
RECURSIVE TreeFieldsFrom(_, _)
TreeFieldsFrom(classes, k) ==
    IF k > Len(classes) THEN <<>> ELSE classes[k].fields \o TreeFieldsFrom(classes, k + 1)

\* tree.filter(javalang.tree.FieldDeclaration): the fields of the whole tree
TreeFields(tree) == TreeFieldsFrom(tree.classes, 1)

\* The imports that end in the name, with or without a dot before it
RECURSIVE UsesOfNameUndotted(_, _, _)
UsesOfNameUndotted(name, imports, i) ==
    IF i > Len(imports) THEN <<>>
    ELSE (IF EndsWith(imports[i], name) THEN <<imports[i]>> ELSE <<>>)
         \o UsesOfNameUndotted(name, imports, i + 1)

\* for imp in imports: if imp.endswith(f".{name}"): uses.append(imp)
RECURSIVE UsesOfName(_, _, _)
UsesOfName(name, imports, i) ==
    IF i > Len(imports) THEN <<>>
    ELSE (IF EndsWith(imports[i], "." \o name) THEN <<imports[i]>> ELSE <<>>)
         \o UsesOfName(name, imports, i + 1)

RECURSIVE Repeat(_, _)
Repeat(s, n) == IF n <= 0 THEN <<>> ELSE s \o Repeat(s, n - 1)

\* The loop over the fields: one pass over the imports per declarator
RECURSIVE UsesOfFields(_, _, _)
UsesOfFields(fields, imports, i) ==
    IF i > Len(fields) THEN <<>>
    ELSE Repeat(UsesOfName(fields[i].type, imports, 1), fields[i].declarators)
         \o UsesOfFields(fields, imports, i + 1)

RECURSIVE UsesOfNames(_, _, _)
UsesOfNames(names, imports, i) ==
    IF i > Len(names) THEN <<>>
    ELSE UsesOfName(names[i], imports, 1) \o UsesOfNames(names, imports, i + 1)

\* What one class appends to the uses of its record: fields, then implements,
\* then extends ("" when the class extends nothing)
UsesOfClass(tree, node) ==
    UsesOfFields(TreeFields(tree), tree.imports, 1)
    \o UsesOfNames(node.implements, tree.imports, 1)
    \o (IF node.extends # "" THEN UsesOfName(node.extends, tree.imports, 1) ELSE <<>>)

FullyQualifiedName(package_name, class_name) ==
    IF package_name # "" THEN package_name \o "." \o class_name ELSE class_name

\* self.dependencies[fully_qualified_name]['uses'].append(imp), for all of uses
DictExtendUses(deps, k, uses) ==
    [deps EXCEPT ![DictIndex(deps, k)].value.uses = @ \o uses]

\* The record is created anew for every class of that name
DictSetAnew(deps, k, v) == DictSet(deps, k, v)

\* if fully_qualified_name not in self.dependencies: create the record
DictSetDefault(deps, k, v) == IF DictHas(deps, k) THEN deps ELSE DictSet(deps, k, v)

\* The body of the loop over the classes of one tree
DependenciesOfClass(tree, file_path, node, deps) ==
    DictExtendUses(
        DictSetDefault(deps, FullyQualifiedName(tree.package, node.name),
                       [file |-> file_path, package |-> tree.package,
                        imports |-> tree.imports, uses |-> <<>>]),
        FullyQualifiedName(tree.package, node.name),
        UsesOfClass(tree, node))

RECURSIVE DependenciesOfClasses(_, _, _, _)
DependenciesOfClasses(tree, file_path, k, deps) ==
    IF k > Len(tree.classes) THEN deps
    ELSE DependenciesOfClasses(tree, file_path, k + 1,
                               DependenciesOfClass(tree, file_path, tree.classes[k], deps))

\* The loop over self.parsed_files.items()
RECURSIVE DependenciesOfFiles(_, _, _)
DependenciesOfFiles(parsed, i, deps) ==
    IF i > Len(parsed) THEN deps
    ELSE DependenciesOfFiles(parsed, i + 1,
                             DependenciesOfClasses(parsed[i].value, parsed[i].key, 1, deps))

(***************************************************************************)
(* The project directory.  fs is the sequence of its files, each           *)
(* [dir, name, unit]: dir is "" for a file of the root and the name of a   *)
(* directory of the root otherwise.  The files of one directory are listed *)
(* in the order of fs, the directories of the root in the order of their   *)
(* first file.  unit is what the file holds: source is "ok", "syntax"      *)
(* (javalang.parse.parse raises) or "unreadable" (open or read raises).    *)
(***************************************************************************)
EntryPath(e) ==
    IF e.dir = "" THEN PathJoin(ProjectPath, e.name)
    ELSE PathJoin(PathJoin(ProjectPath, e.dir), e.name)

\* The file open(file_path) reads
UnitAt(dir, file_path) == (CHOOSE i \in DOMAIN dir : EntryPath(dir[i]) = file_path)

\* The files of directory d, in listing order
FilesIn(dir, d) == SelectSeq(dir, LAMBDA e : e.dir = d)

\* The directories of the root, in listing order
RECURSIVE TopDirsFrom(_, _, _)
TopDirsFrom(dir, i, seen) ==
    IF i > Len(dir) THEN seen
    ELSE TopDirsFrom(dir, i + 1,
             IF dir[i].dir = "" \/ (\E j \in DOMAIN seen : seen[j] = dir[i].dir)
             THEN seen ELSE Append(seen, dir[i].dir))

TopDirs(dir) == TopDirsFrom(dir, 1, <<>>)

\* A filter that drops the hidden directories only
WalkKeepsDirUnlessHidden(d) == ~StartsWith(d, ".")

\* dirs[:] = [d for d in dirs if not d.startswith('.') and d != 'target' and d != 'build']
WalkKeepsDir(d) == ~StartsWith(d, ".") /\ d # "target" /\ d # "build"

RECURSIVE FilesOfDirs(_, _, _)
FilesOfDirs(dir, dirs, i) ==
    IF i > Len(dirs) THEN <<>>
    ELSE FilesIn(dir, dirs[i]) \o FilesOfDirs(dir, dirs, i + 1)

\* The files os.walk yields with the filter on dirs: the root's, then those of
\* every directory that is kept
WalkedFiles(dir) ==
    FilesIn(dir, "") \o FilesOfDirs(dir, SelectSeq(TopDirs(dir), WalkKeepsDir), 1)

RECURSIVE PathsOf(_, _)
PathsOf(entries, i) ==
    IF i > Len(entries) THEN <<>> ELSE <<EntryPath(entries[i])>> \o PathsOf(entries, i + 1)

\* _collect_java_files: what the call appends to self.java_files
CollectedJavaFiles(dir) ==
    PathsOf(SelectSeq(WalkedFiles(dir), LAMBDA e : EndsWith(e.name, ".java")), 1)

(***************************************************************************)
(* _analyze_project_structure.                                             *)
(***************************************************************************)
\* build_structure returned None
NoNode == [name |-> "", path |-> "", type |-> "none", children |-> <<>>]

\* if item.startswith('.') or item in ['target', 'build', 'bin', 'out']: continue
StructureSkips(item) == StartsWith(item, ".") \/ item \in {"target", "build", "bin", "out"}

\* build_structure on a file
FileNode(e) ==
    IF ~EndsWith(EntryPath(e), ".java") THEN NoNode
    ELSE [name |-> e.name, path |-> RelPath(EntryPath(e), ProjectPath), type |-> "file",
          children |-> <<>>]

RECURSIVE FileNodes(_, _)
FileNodes(entries, i) ==
    IF i > Len(entries) THEN <<>>
    ELSE (IF StructureSkips(entries[i].name) \/ FileNode(entries[i]) = NoNode
          THEN <<>> ELSE <<FileNode(entries[i])>>)
         \o FileNodes(entries, i + 1)

\* A directory node is returned whether or not it has children
DirNodeEvenEmpty(dir, d) ==
    [name |-> d, path |-> d, type |-> "directory", children |-> FileNodes(FilesIn(dir, d), 1)]

\* build_structure on a directory of the root
DirNode(dir, d) ==
    LET children == FileNodes(FilesIn(dir, d), 1) IN
    IF children # <<>>
    THEN [name |-> d, path |-> d, type |-> "directory", children |-> children]
    ELSE NoNode

\* The children of the root: os.listdir lists files and directories together
RECURSIVE RootChildren(_, _)
RootChildren(dir, i) ==
    IF i > Len(dir) THEN <<>>
    ELSE LET e == dir[i]
             item == IF e.dir = "" THEN e.name ELSE e.dir
             first == \A j \in 1..(i - 1) : dir[j].dir # e.dir
             child == IF e.dir = "" THEN FileNode(e) ELSE DirNode(dir, e.dir)
         IN (IF (e.dir # "" /\ ~first) \/ StructureSkips(item) \/ child = NoNode
             THEN <<>> ELSE <<child>>)
            \o RootChildren(dir, i + 1)

\* os.path.basename(project_path)
RECURSIVE BaseName(_)
BaseName(p) == IF Contains(p, "/") THEN BaseName(SubSeq(p, 2, Len(p))) ELSE p

\* The structure without the fallback: None when the root has no children
BuildStructureWithoutFallback(dir) ==
    IF RootChildren(dir, 1) # <<>>
    THEN [name |-> BaseName(ProjectPath), path |-> ".", type |-> "directory",
          children |-> RootChildren(dir, 1)]
    ELSE NoNode

\* self.structure after _analyze_project_structure
BuildStructure(dir) ==
    LET children == RootChildren(dir, 1) IN
    IF children # <<>>
    THEN [name |-> BaseName(ProjectPath), path |-> ".", type |-> "directory",
          children |-> children]
    ELSE [name |-> BaseName(ProjectPath), path |-> Absent, type |-> "directory",
          children |-> <<>>]

(***************************************************************************)
(* _count_file_types and the summary of parse_project.                     *)
(***************************************************************************)
\* os.path.splitext(file)[1]: from the last dot, unless only dots precede it
SplitExt(file) ==
    LET dots == {i \in 1..Len(file) : CharAt(file, i) = "."} IN
    IF dots = {} THEN ""
    ELSE LET i == SetMax(dots) IN
         IF \A j \in 1..i : CharAt(file, j) = "." THEN "" ELSE SubSeq(file, i, Len(file))

\* How many files of entries have extension ext (with its dot)
CountExt(entries, ext) ==
    Cardinality({i \in DOMAIN entries : SplitExt(entries[i].name) = ext})

ExtsOf(entries) == {SplitExt(entries[i].name) : i \in DOMAIN entries} \ {""}

\* The counts _count_file_types adds to self.file_types_count, keyed by the
\* extension without its dot; the order of the sorted Series is not modelled
CountedFileTypes(dir) ==
    LET entries == WalkedFiles(dir) IN
    [ext \in {SubSeq(x, 2, Len(x)) : x \in ExtsOf(entries)} |->
        CountExt(entries, "." \o ext)]

AddCounts(c1, c2) ==
    [k \in DOMAIN c1 \cup DOMAIN c2 |->
        (IF k \in DOMAIN c1 THEN c1[k] ELSE 0) + (IF k \in DOMAIN c2 THEN c2[k] ELSE 0)]

RECURSIVE TotalLines(_, _, _)
TotalLines(dir, files, i) ==
    IF i > Len(files) THEN 0
    ELSE LET unit == dir[UnitAt(dir, files[i])].unit IN
         (IF unit.source = "unreadable" THEN 0 ELSE unit.lines) + TotalLines(dir, files, i + 1)

\* libraries_used: only a path of self.java_files that ends in pom.xml or
\* build.gradle is read
LibrariesUsed(dir, files) ==
    UNION {dir[UnitAt(dir, files[i])].unit.libraries :
              i \in {j \in DOMAIN files : \/ EndsWith(files[j], "pom.xml")
                                          \/ EndsWith(files[j], "build.gradle")}}

ProjectSummary(dir, files, fns, batch, api) ==
    [total_files    |-> Cardinality({i \in DOMAIN dir : SplitExt(dir[i].name) # ""}),
     java_files     |-> Len(files),
     total_classes  |-> Len(fns),
     total_lines    |-> TotalLines(dir, files, 1),
     batch_jobs     |-> Len(batch),
     apis_count     |-> Len(api),
     libraries_used |-> LibrariesUsed(dir, files)]

RECURSIVE RelPaths(_, _)
RelPaths(files, i) ==
    IF i > Len(files) THEN <<>>
    ELSE <<RelPath(files[i], ProjectPath)>> \o RelPaths(files, i + 1)

(***************************************************************************)
(* The parser: the fields of one JavaProjectParser and the place of        *)
(* parse_project in its body.                                              *)
(***************************************************************************)
VARIABLES
    fs,                \* the project directory (never modified)
    pc,                \* "ready", "parse", "structure", "count", "summary", "done"
    idx,               \* the place of the loop over self.java_files
    java_files, parsed_files, apis, functions, batch_processes, dependencies,
    structure, file_types_count,      \* the fields of the parser
    instance,          \* how many parsers were constructed
    calls,             \* how many times parse_project was called on this one
    attempted,         \* the paths _parse_java_file was called on in this call
    errors,            \* the paths of the "Error parsing" lines printed in this call
    returned           \* what each call of parse_project returned

vars == <<fs, pc, idx, java_files, parsed_files, apis, functions, batch_processes,
          dependencies, structure, file_types_count, instance, calls, attempted,
          errors, returned>>

\* __init__(project_path): the fields of a parser as it is constructed
Constructed ==
    [java_files       |-> <<>>,
     parsed_files     |-> <<>>,
     apis             |-> <<>>,
     functions        |-> <<>>,
     batch_processes  |-> <<>>,
     dependencies     |-> <<>>,
     structure        |-> [name |-> BaseName(ProjectPath), path |-> Absent,
                           type |-> Absent, children |-> <<>>],
     file_types_count |-> <<>>]

\* The try block of _parse_java_file after _extract_functions, given what
\* _extract_batch_processes did
AfterExtractFunctions(st, b) ==
    IF b.raised THEN [st EXCEPT !.raised = TRUE]
    ELSE [st EXCEPT !.batch_processes = @ \o b.value]

\* The try block of _parse_java_file after _extract_apis did a
AfterExtractApis(unit, relative_path, st, a) ==
    IF a.raised THEN [st EXCEPT !.apis = @ \o a.value, !.raised = TRUE]
    ELSE AfterExtractFunctions(
             [st EXCEPT !.apis = @ \o a.value,
                        !.functions = ExtractFunctions(unit.tree, relative_path, @)],
             ExtractBatchProcesses(unit.tree, relative_path, unit.content))

\* A variant that looks for batch markup in the text of a file that was read
\* and did not parse
ParseJavaFileEffectMarkupOfUnparsed(unit, relative_path, st) ==
    IF unit.source = "unreadable" THEN [st EXCEPT !.raised = TRUE]
    ELSE IF unit.source = "syntax"
         THEN [st EXCEPT !.raised = TRUE,
                         !.batch_processes = @ \o BatchAppended(BatchMarkup(unit.content,
                             [is_batch_process |-> FALSE,
                              batch_details |-> NewBatchDetails(relative_path)]))]
         ELSE AfterExtractApis(unit, relative_path,
                  [st EXCEPT !.parsed_files = DictSet(@, relative_path, unit.tree)],
                  ExtractApis(unit.tree, relative_path))

\* The try block of _parse_java_file on the parser's accumulators st: open and
\* parse, self.parsed_files[relative_path] = tree, then the three extractors
ParseJavaFileEffect(unit, relative_path, st) ==
    IF unit.source # "ok" THEN [st EXCEPT !.raised = TRUE]
    ELSE AfterExtractApis(unit, relative_path,
             [st EXCEPT !.parsed_files = DictSet(@, relative_path, unit.tree)],
             ExtractApis(unit.tree, relative_path))

\* parse_project starts: _collect_java_files()
CollectJavaFiles ==
    /\ pc \in {"ready", "done"}
    /\ Len(returned) < MaxScans
    /\ java_files' = java_files \o CollectedJavaFiles(fs)
    /\ pc' = "parse"
    /\ idx' = 1
    /\ calls' = calls + 1
    /\ attempted' = <<>>
    /\ errors' = <<>>
    /\ UNCHANGED <<fs, parsed_files, apis, functions, batch_processes, dependencies,
                   structure, file_types_count, instance, returned>>

\* A variant without the except clause: the first file that raises ends the loop
ParseJavaFileAborting ==
    /\ pc = "parse"
    /\ idx <= Len(java_files)
    /\ \E st \in {ParseJavaFileEffect(fs[UnitAt(fs, java_files[idx])].unit,
                                      RelPath(java_files[idx], ProjectPath),
                                      [parsed_files |-> parsed_files, apis |-> apis,
                                       functions |-> functions,
                                       batch_processes |-> batch_processes,
                                       raised |-> FALSE])} :
          /\ parsed_files' = st.parsed_files
          /\ apis' = st.apis
          /\ functions' = st.functions
          /\ batch_processes' = st.batch_processes
          /\ errors' = IF st.raised
                       THEN Append(errors, RelPath(java_files[idx], ProjectPath))
                       ELSE errors
          /\ idx' = IF st.raised THEN Len(java_files) + 1 ELSE idx + 1
    /\ attempted' = Append(attempted, java_files[idx])
    /\ UNCHANGED <<fs, pc, java_files, dependencies, structure, file_types_count,
                   instance, calls, returned>>

\* One turn of the loop over self.java_files: _parse_java_file(java_file)
ParseJavaFile ==
    /\ pc = "parse"
    /\ idx <= Len(java_files)
    /\ \E st \in {ParseJavaFileEffect(fs[UnitAt(fs, java_files[idx])].unit,
                                      RelPath(java_files[idx], ProjectPath),
                                      [parsed_files |-> parsed_files, apis |-> apis,
                                       functions |-> functions,
                                       batch_processes |-> batch_processes,
                                       raised |-> FALSE])} :
          /\ parsed_files' = st.parsed_files
          /\ apis' = st.apis
          /\ functions' = st.functions
          /\ batch_processes' = st.batch_processes
          /\ errors' = IF st.raised
                       THEN Append(errors, RelPath(java_files[idx], ProjectPath))
                       ELSE errors
    /\ attempted' = Append(attempted, java_files[idx])
    /\ idx' = idx + 1
    /\ UNCHANGED <<fs, pc, java_files, dependencies, structure, file_types_count,
                   instance, calls, returned>>

\* The dependency pass may start before the loop over self.java_files is over
AnalyzeDependenciesInLoop ==
    /\ pc = "parse"
    /\ dependencies' = DependenciesOfFiles(parsed_files, 1, dependencies)
    /\ pc' = "structure"
    /\ UNCHANGED <<fs, idx, java_files, parsed_files, apis, functions, batch_processes,
                   structure, file_types_count, instance, calls, attempted, errors,
                   returned>>

\* The loop is over: _analyze_dependencies()
AnalyzeDependencies ==
    /\ pc = "parse"
    /\ idx > Len(java_files)
    /\ dependencies' = DependenciesOfFiles(parsed_files, 1, dependencies)
    /\ pc' = "structure"
    /\ UNCHANGED <<fs, idx, java_files, parsed_files, apis, functions, batch_processes,
                   structure, file_types_count, instance, calls, attempted, errors,
                   returned>>

\* _analyze_project_structure()
AnalyzeProjectStructure ==
    /\ pc = "structure"
    /\ structure' = BuildStructure(fs)
    /\ pc' = "count"
    /\ UNCHANGED <<fs, idx, java_files, parsed_files, apis, functions, batch_processes,
                   dependencies, file_types_count, instance, calls, attempted, errors,
                   returned>>

\* _count_file_types()
CountFileTypes ==
    /\ pc = "count"
    /\ file_types_count' = AddCounts(file_types_count, CountedFileTypes(fs))
    /\ pc' = "summary"
    /\ UNCHANGED <<fs, idx, java_files, parsed_files, apis, functions, batch_processes,
                   dependencies, structure, instance, calls, attempted, errors, returned>>

\* The dict parse_project returns.  It holds the parser's own lists and dicts;
\* returned keeps their values at the time of the return.
Result ==
    [structure        |-> structure,
     apis             |-> apis,
     functions        |-> functions,
     batch_processes  |-> batch_processes,
     dependencies     |-> dependencies,
     java_files       |-> RelPaths(java_files, 1),
     file_types_count |-> file_types_count,
     project_summary  |-> ProjectSummary(fs, java_files, functions, batch_processes, apis)]

\* The rest of parse_project: the summary and the return
ReturnResult ==
    /\ pc = "summary"
    /\ returned' = Append(returned, [instance |-> instance, call |-> calls,
                                     result |-> Result])
    /\ pc' = "done"
    /\ UNCHANGED <<fs, idx, java_files, parsed_files, apis, functions, batch_processes,
                   dependencies, structure, file_types_count, instance, calls, attempted,
                   errors>>

\* Another parser whose apis and functions are those of the parser before it
NewParserSharingTables ==
    /\ pc = "done"
    /\ Len(returned) < MaxScans
    /\ java_files' = Constructed.java_files
    /\ parsed_files' = Constructed.parsed_files
    /\ batch_processes' = Constructed.batch_processes
    /\ dependencies' = Constructed.dependencies
    /\ structure' = Constructed.structure
    /\ file_types_count' = Constructed.file_types_count
    /\ instance' = instance + 1
    /\ calls' = 0
    /\ pc' = "ready"
    /\ idx' = 1
    /\ attempted' = <<>>
    /\ errors' = <<>>
    /\ UNCHANGED <<fs, returned, apis, functions>>

\* Another JavaProjectParser is constructed on the same directory
NewParser ==
    /\ pc = "done"
    /\ Len(returned) < MaxScans
    /\ java_files' = Constructed.java_files
    /\ parsed_files' = Constructed.parsed_files
    /\ apis' = Constructed.apis
    /\ functions' = Constructed.functions
    /\ batch_processes' = Constructed.batch_processes
    /\ dependencies' = Constructed.dependencies
    /\ structure' = Constructed.structure
    /\ file_types_count' = Constructed.file_types_count
    /\ instance' = instance + 1
    /\ calls' = 0
    /\ pc' = "ready"
    /\ idx' = 1
    /\ attempted' = <<>>
    /\ errors' = <<>>
    /\ UNCHANGED <<fs, returned>>

Next ==
    \/ CollectJavaFiles
    \/ ParseJavaFile
    \/ AnalyzeDependencies
    \/ AnalyzeProjectStructure
    \/ CountFileTypes
    \/ ReturnResult
    \/ NewParser

\* A parser constructed on the directory dir
InitOn(dir) ==
    /\ fs = dir
    /\ java_files = Constructed.java_files
    /\ parsed_files = Constructed.parsed_files
    /\ apis = Constructed.apis
    /\ functions = Constructed.functions
    /\ batch_processes = Constructed.batch_processes
    /\ dependencies = Constructed.dependencies
    /\ structure = Constructed.structure
    /\ file_types_count = Constructed.file_types_count
    /\ pc = "ready"
    /\ idx = 1
    /\ instance = 1
    /\ calls = 0
    /\ attempted = <<>>
    /\ errors = <<>>
    /\ returned = <<>>

(***************************************************************************)
(* Projects.  The nodes of a tree, as javalang builds them.                *)
(***************************************************************************)
Method(n, mods, anns, rtype, params) ==
    [name |-> n, modifiers |-> mods, annotations |-> anns, return_type |-> rtype,
     parameters |-> params]

Field(t, n) == [type |-> t, declarators |-> n]

Class(n, anns, ms, fs_, ext, impl) ==
    [name |-> n, annotations |-> anns, methods |-> ms, fields |-> fs_, extends |-> ext,
     implements |-> impl]

Tree(pkg, imps, cls) == [package |-> pkg, imports |-> imps, classes |-> cls]

NoTree == Tree("", <<>>, <<>>)

\* A Java source file that parses
JavaUnit(tree, text, n) ==
    [source |-> "ok", tree |-> tree, content |-> text, lines |-> n, libraries |-> {}]

\* A file javalang.parse.parse raises on (it holds batch markup and no Java),
\* and one open or read raises on
BrokenUnit == [source |-> "syntax", tree |-> NoTree, content |-> "<step>", lines |-> 3,
               libraries |-> {}]

UnreadableUnit == [source |-> "unreadable", tree |-> NoTree, content |-> "", lines |-> 0,
                   libraries |-> {}]

\* The name of the i-th file of a project
FileName(i) == SubSeq("ABCDEFGH", i, i) \o ".java"

\* The directory of the i-th file: the first file lies in src, the others in
\* the root, so that os.walk yields the first file last
DirOf(i) == IF i = 1 THEN "src" ELSE ""

\* The project that holds the units us, in this order
Project(us) == [i \in DOMAIN us |-> [dir |-> DirOf(i), name |-> FileName(i), unit |-> us[i]]]

(***************************************************************************)
(* The units of the scans of whole projects: a controller, a unit on which *)
(* _extract_apis raises after its first endpoint, a batch class with batch *)
(* markup, a unit on which _extract_batch_processes raises, a plain class  *)
(* and the two files that cannot be parsed.                                *)
(***************************************************************************)
ControllerUnit ==
    JavaUnit(Tree("web", <<"svc.UserService">>,
        <<Class("UserController",
                <<Annotation("RestController", NoElement),
                  Annotation("RequestMapping", Literal("\"/api\""))>>,
                <<Method("list", {"public"},
                         <<Annotation("GetMapping", Literal("\"/users\""))>>, "List", <<>>),
                  Method("audit", {"private"}, <<>>, "", <<>>)>>,
                <<Field("UserService", 1)>>, "", <<>>)>>), "", 12)

ApiRaisesUnit ==
    JavaUnit(Tree("web", <<>>,
        <<Class("OrderController", <<Annotation("Controller", NoElement)>>,
                <<Method("find", {"public"},
                         <<Annotation("GetMapping", Literal("\"/o\""))>>, "Order",
                         <<[type |-> "long", name |-> "id"]>>),
                  Method("save", {"public"},
                         <<Annotation("RequestMapping", Literal("\"/save\""))>>, "", <<>>)>>,
                <<>>, "", <<>>)>>), "", 9)

BatchUnit ==
    JavaUnit(Tree("jobs", <<>>,
        <<Class("OrderProcessor", <<>>,
                <<Method("run", {"public"}, <<Annotation("Scheduled", NoElement)>>, "",
                         <<>>)>>,
                <<>>, "", <<>>)>>), "// <job id=\"n1\">", 7)

BatchRaisesUnit ==
    JavaUnit(Tree("jobs", <<>>,
        <<Class("Cleaner", <<>>,
                <<Method("sweep", {"public"},
                         <<Annotation("Scheduled", Pairs(<<Pair("fixedRate", "5000")>>))>>,
                         "", <<>>)>>,
                <<>>, "", <<>>)>>), "", 5)

PlainUnit ==
    JavaUnit(Tree("", <<>>,
        <<Class("Util", <<>>,
                <<Method("trim", {"public", "static"}, <<>>, "String",
                         <<[type |-> "String", name |-> "s"]>>)>>,
                <<>>, "", <<>>)>>), "", 4)

CoreUnits == {ControllerUnit, ApiRaisesUnit, BatchUnit, BatchRaisesUnit, PlainUnit,
              BrokenUnit, UnreadableUnit}

\* Sequences over S of length lo to hi
SeqsOf(S, lo, hi) == UNION {[1..n -> S] : n \in lo..hi}

\* A parser constructed on a project of at most MaxFiles files
Init == \E us \in SeqsOf(CoreUnits, 0, MaxFiles) : InitOn(Project(us))

Spec == Init /\ [][Next]_vars

(***************************************************************************)
(* The units of the scans of one controller: a class Ctl with one of the   *)
(* lists of class annotations below and at most MaxMethods methods, each   *)
(* of one of the kinds below and named after its place.                    *)
(***************************************************************************)
ApiClassAnnotations ==
    {<<>>,
     <<Annotation("RestController", NoElement)>>,
     <<Annotation("RestController", NoElement),
       Annotation("RequestMapping", Literal("\"/api\""))>>,
     <<Annotation("Controller", NoElement),
       Annotation("RequestMapping", Pairs(<<Pair("value", "\"/api\"")>>))>>,
     <<Annotation("Path", Literal("\"/a/\"")),
       Annotation("RequestMapping", Literal("\"/b\""))>>,
     <<Annotation("RequestMapping", Literal("\"/api/\""))>>}

\* [modifiers, annotations, return_type] of a method
ApiMethodKinds ==
    {[modifiers |-> {"public"}, annotations |-> <<>>, return_type |-> ""],
     [modifiers |-> {"private"}, annotations |-> <<>>, return_type |-> "int"],
     [modifiers |-> {"public"},
      annotations |-> <<Annotation("GetMapping", Literal("\"/users\""))>>,
      return_type |-> "List"],
     [modifiers |-> {"private", "static"},
      annotations |-> <<Annotation("PostMapping", Literal("\"users\""))>>,
      return_type |-> ""],
     [modifiers |-> {"public"},
      annotations |-> <<Annotation("RequestMapping",
                            Pairs(<<Pair("value", "\"/x\""),
                                    Pair("method", "RequestMethod.POST")>>))>>,
      return_type |-> "User"],
     [modifiers |-> {"public"},
      annotations |-> <<Annotation("RequestMapping", Literal("\"/y\""))>>,
      return_type |-> ""]}

\* The methods of the kinds ks, the j-th named m<j>
ApiMethods(ks) ==
    [j \in DOMAIN ks |-> Method("m" \o SubSeq("123456789", j, j), ks[j].modifiers,
                                ks[j].annotations, ks[j].return_type, <<>>)]

ApiUnit(anns, ks) ==
    JavaUnit(Tree("web", <<>>, <<Class("Ctl", anns, ApiMethods(ks), <<>>, "", <<>>)>>),
             "", 10)

\* A parser constructed on a project of one controller
InitApi ==
    \E anns \in ApiClassAnnotations : \E ks \in SeqsOf(ApiMethodKinds, 1, MaxMethods) :
        InitOn(Project(<<ApiUnit(anns, ks)>>))

SpecApi == InitApi /\ [][Next]_vars

(***************************************************************************)
(* The units of the scans of classes with fields: a class A, in package p  *)
(* or in no package, with one of the import lists and one of the field     *)
(* lists below, that extends Repo or nothing.  The other files of the      *)
(* project are a second declaration of p.A, a class p.B and a unit of two  *)
(* classes of which one has a field.                                       *)
(***************************************************************************)
DepImports ==
    {<<>>, <<"q.Repo">>, <<"q.MyRepo">>, <<"q.Repo", "r.Repo">>, <<"Repo", "q.Other">>}

DepFields == {<<>>, <<Field("Repo", 1)>>, <<Field("Other", 1), Field("Repo", 2)>>}

DepUnit(pkg, imps, flds, ext) ==
    JavaUnit(Tree(pkg, imps, <<Class("A", <<>>, <<>>, flds, ext, <<>>)>>), "", 6)

DepTwins ==
    {DepUnit("p", <<"z.Repo">>, <<Field("Repo", 1)>>, ""),
     JavaUnit(Tree("p", <<"q.MyRepo", "q.Other">>,
                   <<Class("B", <<>>, <<>>, <<Field("Repo", 1)>>, "", <<"Other">>)>>),
              "", 6),
     JavaUnit(Tree("h", <<"q.Repo">>,
                   <<Class("Holder", <<>>, <<>>, <<Field("Repo", 1)>>, "", <<>>),
                     Class("Bare", <<>>, <<>>, <<>>, "", <<>>)>>),
              "", 8)}

\* A parser constructed on a project of a class with fields and of at most
\* MaxFiles - 1 other files
InitDep ==
    \E pkg \in {"p", ""} : \E imps \in DepImports : \E flds \in DepFields :
        \E ext \in {"", "Repo"} : \E ts \in SeqsOf(DepTwins, 0, MaxFiles - 1) :
            InitOn(Project(<<DepUnit(pkg, imps, flds, ext)>> \o ts))

SpecDep == InitDep /\ [][Next]_vars

(***************************************************************************)
(* The units of the scans for batch processes: one class, named after a    *)
(* batch pattern or not, with one of the annotation lists, one of the      *)
(* method lists and one of the texts below.  The other files of the        *)
(* project are a unit of two batch classes and a file that does not parse. *)
(***************************************************************************)
BatchClassAnnotations ==
    {<<>>,
     <<Annotation("BatchJob", Literal("\"nightly\""))>>,
     <<Annotation("Component", NoElement), Annotation("Job", NoElement)>>}

BatchMethods ==
    {<<>>,
     <<Method("run", {"public"}, <<Annotation("Scheduled", NoElement)>>, "", <<>>)>>,
     <<Method("load", {"public"}, <<>>, "int", <<>>),
       Method("sweep", {"public"},
              <<Annotation("Scheduled", Pairs(<<Pair("fixedRate", "5000")>>))>>, "", <<>>)>>}

BatchContents == {"", "// <job id=\"n1\">", "<step> <job a='' id='b'>"}

TwoBatchClassesUnit ==
    JavaUnit(Tree("jobs", <<>>,
        <<Class("ItemReader", <<>>,
                <<Method("read", {"public"}, <<Annotation("Scheduled", NoElement)>>, "",
                         <<>>)>>,
                <<>>, "", <<>>),
          Class("ItemWriter", <<Annotation("Quartz", Literal("\"q\""))>>, <<>>, <<>>, "",
                <<>>)>>), "", 9)

\* A parser constructed on a project of a class that may be a batch process and
\* of at most MaxFiles - 1 other files
InitBatch ==
    \E n \in {"OrderProcessor", "Util"} : \E anns \in BatchClassAnnotations :
        \E ms \in BatchMethods : \E text \in BatchContents :
            \E ts \in SeqsOf({TwoBatchClassesUnit, BrokenUnit}, 0, MaxFiles - 1) :
                InitOn(Project(<<JavaUnit(Tree("jobs", <<>>,
                                               <<Class(n, anns, ms, <<>>, "", <<>>)>>),
                                          text, 8)>> \o ts))

SpecBatch == InitBatch /\ [][Next]_vars

(***************************************************************************)
(* The directories of the scans of whole trees: at most MaxFiles of the    *)
(* files below, in any listing order.  They lie in the root, in a source   *)
(* directory, in a hidden directory, in build directories and in a         *)
(* directory without sources; one is a hidden source file, one a build     *)
(* manifest that declares the library junit, one has no extension.         *)
(***************************************************************************)
ManifestUnit == [source |-> "text", tree |-> NoTree, content |-> "<artifactId>junit</artifactId>",
                 lines |-> 1, libraries |-> {"junit"}]

TextUnit == [source |-> "text", tree |-> NoTree, content |-> "notes", lines |-> 1,
             libraries |-> {}]

DirEntries ==
    {[dir |-> "",       name |-> "A.java",    unit |-> PlainUnit],
     [dir |-> "",       name |-> ".H.java",   unit |-> PlainUnit],
     [dir |-> "",       name |-> "pom.xml",   unit |-> ManifestUnit],
     [dir |-> "",       name |-> "README",    unit |-> TextUnit],
     [dir |-> "src",    name |-> "B.java",    unit |-> ControllerUnit],
     [dir |-> "target", name |-> "C.java",    unit |-> PlainUnit],
     [dir |-> ".git",   name |-> "D.java",    unit |-> PlainUnit],
     [dir |-> "bin",    name |-> "E.java",    unit |-> PlainUnit],
     [dir |-> "docs",   name |-> "notes.txt", unit |-> TextUnit]}

\* A parser constructed on a directory of at most MaxFiles of these files
InitDir ==
    \E es \in SeqsOf(DirEntries, 0, MaxFiles) :
        /\ \A i \in DOMAIN es : \A j \in DOMAIN es : es[i] = es[j] => i = j
        /\ InitOn(es)

SpecDir == InitDir /\ [][Next]_vars

(***************************************************************************)
(* Properties of the scan.                                                 *)
(***************************************************************************)
InSeq(x, s) == \E j \in DOMAIN s : s[j] = x

AllIn(a, b) == \A k \in DOMAIN a : InSeq(a[k], b)

\* The path of a file of the directory relative to the project
Rel(e) == RelPath(EntryPath(e), ProjectPath)

\* The loop over self.java_files of this call is over
AfterLoop == pc \in {"structure", "count", "summary", "done"}

\* Every fact of every value of the dict d
DictFacts(d) == UNION {{d[i].value[j] : j \in DOMAIN d[i].value} : i \in DOMAIN d}

\* The facts the three extractors compute for the unit of file e are in the
\* parser's accumulators
FactsPresent(e) ==
    /\ AllIn(ExtractApis(e.unit.tree, Rel(e)).value, apis)
    /\ \A f \in DictFacts(ExtractFunctions(e.unit.tree, Rel(e), <<>>)) :
           f \in DictFacts(functions)
    /\ \A k \in DOMAIN ExtractFunctions(e.unit.tree, Rel(e), <<>>) :
           DictHas(functions, ExtractFunctions(e.unit.tree, Rel(e), <<>>)[k].key)
    /\ AllIn(ExtractBatchProcesses(e.unit.tree, Rel(e), e.unit.content).value,
             batch_processes)

\* C1: once the loop of parse_project over the collected files is over,
\* _parse_java_file was called on every entry of self.java_files exactly once
\* and in order, whichever of them raised, and the facts of every collected
\* file for which no error was reported are in apis, functions and
\* batch_processes.
C1_EveryFileAttempted ==
    AfterLoop =>
        /\ attempted = java_files
        /\ \A i \in DOMAIN fs :
               (InSeq(EntryPath(fs[i]), java_files) /\ ~InSeq(Rel(fs[i]), errors))
                   => FactsPresent(fs[i])

\* A scan has returned in which the first collected file raised and the
\* second one contributed an endpoint.
C1_Witness ==
    /\ pc = "done"
    /\ Len(java_files) >= 2
    /\ InSeq(RelPath(java_files[1], ProjectPath), errors)
    /\ \E k \in DOMAIN apis : apis[k].file = RelPath(java_files[2], ProjectPath)

\* C2: a file on which open, read or javalang.parse.parse raises is the
\* declaring file of no entry of apis, functions, batch_processes or
\* dependencies.
C2_FailedFileInNoTable ==
    \A i \in DOMAIN fs :
        fs[i].unit.source # "ok" =>
            /\ \A k \in DOMAIN apis : apis[k].file # Rel(fs[i])
            /\ \A f \in DictFacts(functions) : f.file # Rel(fs[i])
            /\ \A k \in DOMAIN batch_processes : batch_processes[k].file # Rel(fs[i])
            /\ \A k \in DOMAIN dependencies : dependencies[k].value.file # Rel(fs[i])

\* A scan has returned with facts although a collected file did not parse.
C2_Witness ==
    /\ pc = "done"
    /\ \E i \in DOMAIN fs :
           fs[i].unit.source = "syntax" /\ InSeq(EntryPath(fs[i]), java_files)
    /\ apis # <<>>
    /\ dependencies # <<>>

\* The first call of parse_project on a parser is past its loop
FirstScanAfterLoop == AfterLoop /\ calls = 1

\* How many entries of apis name file rel, class c and method m
ApiCount(rel, c, m) ==
    Cardinality({k \in DOMAIN apis :
                    apis[k].file = rel /\ apis[k].class = c /\ apis[k].method = m})

\* C3: after the scan of a file that parses, a class with a
\* class-level RestController, Controller, Path or WebServlet annotation whose
\* methods carry no annotation has exactly one entry in apis for each of its
\* non-private methods.
C3_OneEndpointPerMethod ==
    FirstScanAfterLoop =>
        \A i \in DOMAIN fs :
            (fs[i].unit.source = "ok" /\ InSeq(EntryPath(fs[i]), java_files)) =>
                \A c \in DOMAIN fs[i].unit.tree.classes :
                    LET node == fs[i].unit.tree.classes[c] IN
                    ((\E a \in DOMAIN node.annotations :
                          node.annotations[a].name \in
                              {"RestController", "Controller", "Path", "WebServlet"})
                     /\ \A j \in DOMAIN node.methods : node.methods[j].annotations = <<>>)
                        => \A j \in DOMAIN node.methods :
                               "private" \notin node.methods[j].modifiers =>
                                   ApiCount(Rel(fs[i]), node.name, node.methods[j].name) = 1

\* The methods named m of the classes named c of the file at rel
MethodsNamed(rel, c, m) ==
    UNION {UNION {{[node |-> fs[i].unit.tree.classes[k],
                    method |-> fs[i].unit.tree.classes[k].methods[j]] :
                       j \in {x \in DOMAIN fs[i].unit.tree.classes[k].methods :
                                 fs[i].unit.tree.classes[k].methods[x].name = m}} :
                  k \in {x \in DOMAIN fs[i].unit.tree.classes :
                            fs[i].unit.tree.classes[x].name = c}} :
           i \in {x \in DOMAIN fs : Rel(fs[x]) = rel}}

\* C4: the path of every entry of apis is the class-level path followed by the
\* method-level path of the method it names, with nothing between them and
\* nothing changed, and the class-level path alone when the method-level path
\* is empty.
C4_PathIsConcatenation ==
    \A k \in DOMAIN apis :
        \E nm \in MethodsNamed(apis[k].file, apis[k].class, apis[k].method) :
            LET cp == ClassPath(nm.node).value
                mp == Mapping(nm.method).value.method_path
            IN apis[k].path = (IF mp = "" THEN cp ELSE cp \o mp)

C4_Witness ==
    /\ pc = "done"
    /\ \E k \in DOMAIN apis : apis[k].path = "/api//users"
    /\ \E k \in DOMAIN apis : apis[k].path = "/api/users"

\* C5: no entry of functions names a private method, whatever annotations the
\* method carries.
C5_NoPrivateFunction ==
    \A i \in DOMAIN functions : \A j \in DOMAIN functions[i].value :
        \A nm \in MethodsNamed(functions[i].value[j].file, functions[i].key,
                               functions[i].value[j].name) :
            "private" \notin nm.method.modifiers

C5_Witness ==
    /\ pc = "done"
    /\ functions # <<>>
    /\ \E k \in DOMAIN apis :
           \E nm \in MethodsNamed(apis[k].file, apis[k].class, apis[k].method) :
               "private" \in nm.method.modifiers /\ nm.method.annotations # <<>>

\* _analyze_dependencies of this call is over
AfterDependencies == pc \in {"structure", "count", "summary", "done"}

Range(q) == {q[j] : j \in DOMAIN q}

\* The parsed units of the project that declare a class of qualified name q
UnitsDeclaring(q) ==
    {fs[i].unit.tree : i \in {x \in DOMAIN fs :
        /\ fs[x].unit.source = "ok"
        /\ InSeq(EntryPath(fs[x]), java_files)
        /\ \E k \in DOMAIN fs[x].unit.tree.classes :
               FullyQualifiedName(fs[x].unit.tree.package,
                                  fs[x].unit.tree.classes[k].name) = q}}

\* The short names a unit looks up among its imports for its classes named q:
\* the types of its fields, the interfaces and the superclass
NamesLookedUp(tree, q) ==
    UNION {{TreeFields(tree)[j].type : j \in DOMAIN TreeFields(tree)}
           \cup Range(tree.classes[k].implements)
           \cup ({tree.classes[k].extends} \ {""}) :
               k \in {x \in DOMAIN tree.classes :
                         FullyQualifiedName(tree.package, tree.classes[x].name) = q}}

\* C6: once the dependencies are analysed, for every field of a class of a
\* parsed unit, each import of the unit that ends in "." followed by the
\* field's type is in the uses of the class's record; and the uses of a record
\* hold nothing else than imports that end in "." followed by a name looked up
\* for the class, so that a field whose type no import ends in adds nothing.
C6_FieldUsesImport ==
    AfterDependencies =>
        /\ \A i \in DOMAIN fs :
               (fs[i].unit.source = "ok" /\ InSeq(EntryPath(fs[i]), java_files)) =>
                   \A k \in DOMAIN fs[i].unit.tree.classes :
                       \A f \in DOMAIN fs[i].unit.tree.classes[k].fields :
                           \A imp \in Range(fs[i].unit.tree.imports) :
                               EndsWith(imp, "." \o fs[i].unit.tree.classes[k].fields[f].type)
                                   => InSeq(imp,
                                        DictGet(dependencies,
                                            FullyQualifiedName(fs[i].unit.tree.package,
                                                fs[i].unit.tree.classes[k].name)).uses)
        /\ \A d \in DOMAIN dependencies :
               \A u \in Range(dependencies[d].value.uses) :
                   \E tree \in UnitsDeclaring(dependencies[d].key) :
                       /\ u \in Range(tree.imports)
                       /\ \E n \in NamesLookedUp(tree, dependencies[d].key) :
                              EndsWith(u, "." \o n)

\* A class has a field of type Repo and both imports that end in .Repo among
\* its uses, and the field of type Repo of p.B, whose unit imports q.MyRepo,
\* has added nothing to the uses of p.B
C6_Witness ==
    /\ pc = "done"
    /\ \E d \in DOMAIN dependencies :
           /\ dependencies[d].value.imports = <<"q.Repo", "r.Repo">>
           /\ InSeq("q.Repo", dependencies[d].value.uses)
           /\ InSeq("r.Repo", dependencies[d].value.uses)
    /\ \E d \in DOMAIN dependencies :
           /\ dependencies[d].key = "p.B"
           /\ dependencies[d].value.uses = <<"q.Other">>

\* C7: every entry of the uses of a record of dependencies is among the
\* imports of the same record, whatever units were parsed.
C7_UsesAmongImports ==
    \A d \in DOMAIN dependencies :
        \A u \in Range(dependencies[d].value.uses) :
            u \in Range(dependencies[d].value.imports)

\* The entries of batch_processes that name the file at rel
BatchFactsOf(rel) == {k \in DOMAIN batch_processes : batch_processes[k].file = rel}

\* Criterion 1: the name of a class of the tree contains a batch pattern
Criterion1(tree) ==
    \E k \in DOMAIN tree.classes : \E p \in BatchClassPatterns :
        Contains(tree.classes[k].name, p)

\* Criterion 2: a class of the tree carries a batch annotation
Criterion2(tree) ==
    \E k \in DOMAIN tree.classes : \E a \in DOMAIN tree.classes[k].annotations :
        tree.classes[k].annotations[a].name \in BatchAnnotations

\* Criterion 3: a method of a class of the tree carries a batch annotation
Criterion3(tree) ==
    \E k \in DOMAIN tree.classes : \E j \in DOMAIN tree.classes[k].methods :
        \E a \in DOMAIN tree.classes[k].methods[j].annotations :
            tree.classes[k].methods[j].annotations[a].name \in BatchAnnotations

\* Criterion 4: the text holds batch markup
Criterion4(content) ==
    Contains(content, "<job") \/ Contains(content, "<step") \/ Contains(content, "<tasklet")

\* The files of the first scan of a parser that were parsed
ParsedInFirstScan ==
    {i \in DOMAIN fs : /\ FirstScanAfterLoop
                       /\ fs[i].unit.source = "ok"
                       /\ InSeq(EntryPath(fs[i]), java_files)}

\* C8: after the scan of a file whose class name contains a batch pattern and
\* whose text holds a <job id="n1"> marker, batch_processes holds exactly one
\* entry for the file, of type 'Spring Batch XML Configuration' and details
\* 'Job ID: n1'.
C8_LastRuleWins ==
    \A i \in ParsedInFirstScan :
        (Criterion1(fs[i].unit.tree) /\ Contains(fs[i].unit.content, "<job id=\"n1\">")) =>
            /\ Cardinality(BatchFactsOf(Rel(fs[i]))) = 1
            /\ \A k \in BatchFactsOf(Rel(fs[i])) :
                   /\ batch_processes[k].type = "Spring Batch XML Configuration"
                   /\ batch_processes[k].details = "Job ID: n1"

\* C9: after the scan of a file, batch_processes holds at most one entry for
\* the file, and it holds one exactly when one of the four criteria matched.
C9_OneFactIffCriterion ==
    \A i \in ParsedInFirstScan :
        /\ Cardinality(BatchFactsOf(Rel(fs[i]))) <= 1
        /\ (Cardinality(BatchFactsOf(Rel(fs[i]))) = 1) <=>
               \/ Criterion1(fs[i].unit.tree)
               \/ Criterion2(fs[i].unit.tree)
               \/ Criterion3(fs[i].unit.tree)
               \/ Criterion4(fs[i].unit.content)

\* C10: the results that the first calls of parse_project return on two
\* parsers constructed on the same directory are equal, field by field and in
\* the same order.
C10_FreshScansAgree ==
    \A i \in DOMAIN returned : \A j \in DOMAIN returned :
        (returned[i].call = 1 /\ returned[j].call = 1) =>
            returned[i].result = returned[j].result

C10_Witness ==
    \E i \in DOMAIN returned : \E j \in DOMAIN returned :
        /\ returned[i].instance # returned[j].instance
        /\ returned[i].call = 1 /\ returned[j].call = 1
        /\ returned[j].result.apis # <<>>
        /\ returned[j].result.batch_processes # <<>>
        /\ returned[j].result.functions # <<>>
        /\ returned[j].result.dependencies # <<>>

\* A file node of the structure: a file of the directory whose name ends in .java
IsSourceLeaf(node) ==
    /\ node.type = "file"
    /\ node.children = <<>>
    /\ EndsWith(node.name, ".java")
    /\ \E i \in DOMAIN fs : Rel(fs[i]) = node.path /\ fs[i].name = node.name

\* C11: below the root of the structure every leaf is a file node whose name
\* ends in .java, and every directory node has a file node below it.
C11_StructureHoldsSources ==
    \A c \in Range(structure.children) :
        \/ IsSourceLeaf(c)
        \/ /\ c.type = "directory"
           /\ c.children # <<>>
           /\ \A g \in Range(c.children) : IsSourceLeaf(g)

\* The structure of a directory that holds docs/notes.txt has a directory node
C11_Witness ==
    /\ pc = "done"
    /\ \E i \in DOMAIN fs : fs[i].dir = "docs"
    /\ \E c \in Range(structure.children) : c.type = "directory"

\* No file of the directory, at any place, is a source file
NoSourceFile == \A i \in DOMAIN fs : ~EndsWith(fs[i].name, ".java")

\* C12: on a directory without a source file the first call of parse_project
\* reports no error and returns empty apis, functions, batch_processes,
\* dependencies and java_files, and as structure a directory node named after
\* the base name of the project that has no children.
C12_EmptyProject ==
    NoSourceFile =>
        /\ errors = <<>>
        /\ \A k \in DOMAIN returned :
               returned[k].call = 1 =>
                   /\ returned[k].result.apis = <<>>
                   /\ returned[k].result.functions = <<>>
                   /\ returned[k].result.batch_processes = <<>>
                   /\ returned[k].result.dependencies = <<>>
                   /\ returned[k].result.java_files = <<>>
                   /\ returned[k].result.structure.name = "proj"
                   /\ returned[k].result.structure.type = "directory"
                   /\ returned[k].result.structure.children = <<>>

\* A directory that holds files, none of them a source file, was scanned
C12_Witness ==
    /\ NoSourceFile
    /\ Len(fs) = 2
    /\ pc = "done"
    /\ \E k \in DOMAIN returned : returned[k].call = 1

\* C13: no collected source file is hidden (its name starts with a dot), and
\* none lies under a hidden directory or under target or build.
C13_NoHiddenSource ==
    \A i \in DOMAIN fs :
        InSeq(EntryPath(fs[i]), java_files) =>
            /\ ~StartsWith(fs[i].name, ".")
            /\ ~StartsWith(fs[i].dir, ".")
            /\ fs[i].dir \notin {"target", "build"}

\* _count_file_types of the first call on a parser is over
FirstCountDone == calls = 1 /\ pc \in {"summary", "done"}

\* The files of the set S of places of fs whose name has the extension ext
WithExtension(S, ext) == {i \in S : SplitExt(fs[i].name) = "." \o ext}

\* The extensions, without their dot, of the files of S that have one
ExtensionsOf(S) ==
    {SubSeq(SplitExt(fs[i].name), 2, Len(SplitExt(fs[i].name))) :
        i \in {x \in S : SplitExt(fs[x].name) # ""}}

\* file_types_count is the tally of the extensions of the files of S
TalliesFilesOf(S) ==
    /\ DOMAIN file_types_count = ExtensionsOf(S)
    /\ \A ext \in ExtensionsOf(S) :
           file_types_count[ext] = Cardinality(WithExtension(S, ext))

C15_ManifestLibrariesListed ==
    \A k \in DOMAIN returned : \A i \in DOMAIN fs :
        fs[i].name \in {"pom.xml", "build.gradle"} =>
            fs[i].unit.libraries \subseteq returned[k].result.project_summary.libraries_used

\* The verb a per-verb annotation name stands for, "" for any other name
VerbOf(name) ==
    CASE name \in {"GetMapping", "GET"} -> "GET"
      [] name \in {"PostMapping", "POST"} -> "POST"
      [] name \in {"PutMapping", "PUT"} -> "PUT"
      [] name \in {"DeleteMapping", "DELETE"} -> "DELETE"
      [] OTHER -> ""

\* The method has a RequestMapping annotation with an element named method
HasMethodElement(method) ==
    \E a \in DOMAIN method.annotations :
        /\ method.annotations[a].name = "RequestMapping"
        /\ \E e \in DOMAIN method.annotations[a].element.pairs :
               method.annotations[a].element.pairs[e].name = "method"

\* C16: the http_method of every entry of apis is the verb of a per-verb
\* annotation of its method when there is one, is GET when the method has
\* neither a per-verb annotation nor a RequestMapping with a method element, and
\* is never the empty string.
C16_VerbResolved ==
    \A k \in DOMAIN apis :
        /\ apis[k].http_method # ""
        /\ \A nm \in MethodsNamed(apis[k].file, apis[k].class, apis[k].method) :
               LET verbs == {VerbOf(nm.method.annotations[a].name) :
                                a \in DOMAIN nm.method.annotations} \ {""}
               IN /\ verbs # {} => apis[k].http_method \in verbs
                  /\ (verbs = {} /\ ~HasMethodElement(nm.method)) =>
                         apis[k].http_method = "GET"

\* The places of the class-level path annotations of node that carry a value
PathAnnotationsOf(node) ==
    {a \in DOMAIN node.annotations :
        /\ node.annotations[a].name \in {"RequestMapping", "Path"}
        /\ node.annotations[a].element.kind = "literal"}

\* C17: the path of every entry of apis whose class carries class-level path
\* annotations with a value begins with the value of the first of them.
C17_FirstClassPathWins ==
    \A k \in DOMAIN apis :
        \A nm \in MethodsNamed(apis[k].file, apis[k].class, apis[k].method) :
            PathAnnotationsOf(nm.node) # {} =>
                StartsWith(apis[k].path,
                    Strip(nm.node.annotations[SetMin(PathAnnotationsOf(nm.node))].element.value,
                          "\""))

\* C18: the method of every entry of apis carries an annotation of the
\* HTTP-verb vocabulary or lies in a class that carries an annotation of the
\* controller vocabulary; a class-level RequestMapping alone makes no
\* endpoint of a method without annotation.
C18_EndpointNeedsVerbOrController ==
    \A k \in DOMAIN apis :
        \A nm \in MethodsNamed(apis[k].file, apis[k].class, apis[k].method) :
            \/ \E a \in DOMAIN nm.method.annotations :
                   nm.method.annotations[a].name \in
                       {"GetMapping", "PostMapping", "PutMapping", "DeleteMapping",
                        "RequestMapping", "GET", "POST", "PUT", "DELETE"}
            \/ \E a \in DOMAIN nm.node.annotations :
                   nm.node.annotations[a].name \in
                       {"RestController", "Controller", "Path", "WebServlet"}

\* A class with a class-level RequestMapping and no controller annotation was
\* scanned: its method with a GetMapping has an entry in apis, its method
\* without annotation has none
C18_Witness ==
    /\ pc = "done"
    /\ \E k \in DOMAIN apis : apis[k].path = "/api//users"
    /\ \E i \in DOMAIN fs : \E c \in DOMAIN fs[i].unit.tree.classes :
           \E j \in DOMAIN fs[i].unit.tree.classes[c].methods :
               /\ fs[i].unit.tree.classes[c].methods[j].annotations = <<>>
               /\ "public" \in fs[i].unit.tree.classes[c].methods[j].modifiers
               /\ ApiCount(Rel(fs[i]), fs[i].unit.tree.classes[c].name,
                           fs[i].unit.tree.classes[c].methods[j].name) = 0

\* The classifications of the batch annotations of the list, in order
RECURSIVE AnnotationLabels(_, _, _)
AnnotationLabels(annotations, i, prefix) ==
    IF i > Len(annotations) THEN <<>>
    ELSE (IF annotations[i].name \in {"Scheduled", "Schedule", "Quartz", "BatchJob", "Job"}
          THEN <<prefix \o " (" \o annotations[i].name \o ")">> ELSE <<>>)
         \o AnnotationLabels(annotations, i + 1, prefix)

RECURSIVE MethodLabels(_, _)
MethodLabels(methods, j) ==
    IF j > Len(methods) THEN <<>>
    ELSE AnnotationLabels(methods[j].annotations, 1, "Scheduled Method")
         \o MethodLabels(methods, j + 1)

\* The classifications of the rules that match in a file, in the order the
\* rules are evaluated: for each class its name, its annotations and the
\* annotations of its methods, then the markup of the text
RECURSIVE ClassLabels(_, _)
ClassLabels(classes, k) ==
    IF k > Len(classes) THEN <<>>
    ELSE (IF \E p \in {"BatchJob", "Job", "Processor", "Reader", "Writer", "TaskExecutor",
                       "Scheduler", "QuartzJob"} : Contains(classes[k].name, p)
          THEN <<"Batch Class">> ELSE <<>>)
         \o AnnotationLabels(classes[k].annotations, 1, "Batch Class")
         \o MethodLabels(classes[k].methods, 1)
         \o ClassLabels(classes, k + 1)

RuleLabels(e) ==
    ClassLabels(e.unit.tree.classes, 1)
    \o (IF Criterion4(e.unit.content) THEN <<"Spring Batch XML Configuration">> ELSE <<>>)

\* C19 as claimed: the type of every entry of batch_processes is the
\* classification of the first rule that matched in its file; no later rule
\* has changed it.
C19_FirstRuleWins ==
    \A i \in ParsedInFirstScan : \A k \in BatchFactsOf(Rel(fs[i])) :
        RuleLabels(fs[i]) # <<>> /\ batch_processes[k].type = Head(RuleLabels(fs[i]))

\* C19: every matching rule overwrites the type: the type of every entry of
\* batch_processes is the classification of the last rule that matched in its
\* file, in the order of evaluation.
C19_LastRuleWins ==
    \A i \in ParsedInFirstScan : \A k \in BatchFactsOf(Rel(fs[i])) :
        /\ RuleLabels(fs[i]) # <<>>
        /\ batch_processes[k].type = RuleLabels(fs[i])[Len(RuleLabels(fs[i]))]

\* The fact of a class named OrderProcessor with a BatchJob annotation, a
\* Scheduled method and markup has the type of the markup
C19_Witness ==
    /\ pc = "done"
    /\ \E i \in ParsedInFirstScan : \E k \in BatchFactsOf(Rel(fs[i])) :
           /\ Len(RuleLabels(fs[i])) = 4
           /\ batch_processes[k].class = "OrderProcessor"
           /\ batch_processes[k].method = "run"
           /\ batch_processes[k].type = "Spring Batch XML Configuration"
    /\ \E k \in DOMAIN batch_processes : batch_processes[k].type = "Batch Class (Quartz)"

\* C20: a step of a parser changes dependencies only when _parse_java_file
\* has been attempted on every collected file of the call, and no step that
\* leads into or through the rest of parse_project (the dependency pass, the
\* structure, the counts, the return) changes apis, functions or
\* batch_processes.
C20_DependenciesAreSecondPass ==
    [][/\ (dependencies' # dependencies /\ instance' = instance) =>
              (pc = "parse" /\ attempted = java_files)
       /\ pc' \in {"structure", "count", "summary", "done"} =>
              UNCHANGED <<apis, functions, batch_processes>>]_vars

\* A scan of two files, one of which raised, has recorded dependencies and
\* endpoints
C20_Witness ==
    /\ pc = "done"
    /\ Len(attempted) = 2
    /\ errors # <<>>
    /\ dependencies # <<>>
    /\ apis # <<>>

\* The entries of functions under the key c that name the file at rel, in order
FunctionsOf(c, rel) ==
    IF DictHas(functions, c)
    THEN SelectSeq(DictGet(functions, c), LAMBDA f : f.file = rel)
    ELSE <<>>

\* The names and return types of the non-private methods of the list, in the
\* order of declaration, 'void' standing for no return type
RECURSIVE DeclaredFunctions(_, _)
DeclaredFunctions(methods, j) ==
    IF j > Len(methods) THEN <<>>
    ELSE (IF "private" \in methods[j].modifiers THEN <<>>
          ELSE <<[name |-> methods[j].name,
                  return_type |-> IF methods[j].return_type = "" THEN "void"
                                  ELSE methods[j].return_type]>>)
         \o DeclaredFunctions(methods, j + 1)

\* C21: after the scan, for every class of a unit that javalang parsed, the
\* entries of functions for the class and the file are, one for one and in
\* the order of declaration, its non-private methods, with return type 'void'
\* for a method without return type.
C21_OneFunctionPerMethod ==
    \A i \in ParsedInFirstScan : \A c \in DOMAIN fs[i].unit.tree.classes :
        LET node == fs[i].unit.tree.classes[c]
            facts == FunctionsOf(node.name, Rel(fs[i]))
        IN /\ Len(facts) = Len(DeclaredFunctions(node.methods, 1))
           /\ \A j \in DOMAIN facts :
                  /\ facts[j].name = DeclaredFunctions(node.methods, 1)[j].name
                  /\ facts[j].return_type = DeclaredFunctions(node.methods, 1)[j].return_type

\* The tree of the unit at the path of java_files, and whether it was parsed
TreeAt(path) == fs[UnitAt(fs, path)].unit.tree

ParsedAt(path) == fs[UnitAt(fs, path)].unit.source = "ok"

\* The qualified names of the classes a tree declares
NamesDeclared(tree) ==
    {FullyQualifiedName(tree.package, tree.classes[k].name) : k \in DOMAIN tree.classes}

\* C22 as claimed: once the dependencies are analysed, every class declared in
\* a parsed unit has a record under its qualified name whose file, package and
\* imports are those of the unit that declares the class.
C22_RecordOfDeclaringUnit ==
    AfterDependencies =>
        \A j \in DOMAIN java_files :
            ParsedAt(java_files[j]) =>
                \A q \in NamesDeclared(TreeAt(java_files[j])) :
                    /\ DictHas(dependencies, q)
                    /\ DictGet(dependencies, q).file = RelPath(java_files[j], ProjectPath)
                    /\ DictGet(dependencies, q).package = TreeAt(java_files[j]).package
                    /\ DictGet(dependencies, q).imports = TreeAt(java_files[j]).imports

\* C22: dependencies holds one record per qualified name of a class declared
\* in a parsed unit, and the file, package and imports of the record are those
\* of the first parsed unit, in the order of java_files, that declares a class
\* of that name.
C22_RecordOfFirstDeclaringUnit ==
    /\ \A d \in DOMAIN dependencies : \A e \in DOMAIN dependencies :
           dependencies[d].key = dependencies[e].key => d = e
    /\ AfterDependencies =>
           \A j \in DOMAIN java_files :
               ParsedAt(java_files[j]) =>
                   \A q \in NamesDeclared(TreeAt(java_files[j])) : DictHas(dependencies, q)
    /\ \A d \in DOMAIN dependencies :
           LET S == {j \in DOMAIN java_files :
                        /\ ParsedAt(java_files[j])
                        /\ dependencies[d].key \in NamesDeclared(TreeAt(java_files[j]))}
           IN /\ S # {}
              /\ dependencies[d].value.file = RelPath(java_files[SetMin(S)], ProjectPath)
              /\ dependencies[d].value.package = TreeAt(java_files[SetMin(S)]).package
              /\ dependencies[d].value.imports = TreeAt(java_files[SetMin(S)]).imports

\* Two units that declare p.A with different imports were scanned, and the
\* record of p.A is that of B.java, the first of them in java_files
C22_Witness ==
    /\ pc = "done"
    /\ Len(java_files) = 2
    /\ TreeAt(java_files[1]).imports # TreeAt(java_files[2]).imports
    /\ NamesDeclared(TreeAt(java_files[1])) = {"p.A"}
    /\ NamesDeclared(TreeAt(java_files[2])) = {"p.A"}
    /\ Len(dependencies) = 1
    /\ dependencies[1].value.file = "B.java"

\* C23: for every entry of apis, functions has under the entry's class a
\* MethodFact of the entry's method name and file.
C23_EndpointHasFunction ==
    \A k \in DOMAIN apis :
        \E j \in DOMAIN FunctionsOf(apis[k].class, apis[k].file) :
            FunctionsOf(apis[k].class, apis[k].file)[j].name = apis[k].method

\* C24: after the loop of a scan, no entry of apis, functions or
\* batch_processes names a file for which _parse_java_file reported an error,
\* and after the dependency pass no record of dependencies names it.
C24_AllOrNothing ==
    FirstScanAfterLoop =>
        \A i \in DOMAIN fs :
            InSeq(Rel(fs[i]), errors) =>
                /\ \A k \in DOMAIN apis : apis[k].file # Rel(fs[i])
                /\ \A f \in DictFacts(functions) : f.file # Rel(fs[i])
                /\ \A k \in DOMAIN batch_processes : batch_processes[k].file # Rel(fs[i])
                /\ \A d \in DOMAIN dependencies : dependencies[d].value.file # Rel(fs[i])

\* C25: the results of two calls of parse_project on the same parser have the
\* same java_files, apis, functions and batch_processes.
C25_SecondCallAgrees ==
    \A i \in DOMAIN returned : \A j \in DOMAIN returned :
        returned[i].instance = returned[j].instance =>
            /\ returned[i].result.java_files = returned[j].result.java_files
            /\ returned[i].result.apis = returned[j].result.apis
            /\ returned[i].result.functions = returned[j].result.functions
            /\ returned[i].result.batch_processes = returned[j].result.batch_processes

\* The paths of the file nodes of a structure
LeafPaths(root) ==
    {c.path : c \in {x \in Range(root.children) : x.type = "file"}}
    \cup UNION {{g.path : g \in {x \in Range(c.children) : x.type = "file"}} :
                   c \in {x \in Range(root.children) : x.type = "directory"}}

\* C26: in the result of a scan, the files of java_files are the files that
\* are file nodes of the structure.
C26_CollectorAndStructureAgree ==
    \A k \in DOMAIN returned :
        returned[k].call = 1 =>
            Range(returned[k].result.java_files) = LeafPaths(returned[k].result.structure)

\* C27: in every entry of batch_processes that has a class and a method, the
\* method is declared in that class.
C27_MethodOfRecordedClass ==
    \A k \in DOMAIN batch_processes :
        (batch_processes[k].class # Absent /\ batch_processes[k].method # Absent) =>
            MethodsNamed(batch_processes[k].file, batch_processes[k].class,
                         batch_processes[k].method) # {}

\* For every rule that matches in a file, in the order of RuleLabels, whether
\* the rule supplies a details value: an annotation does when it has an
\* element, a class name never does, the markup does when it has a job id
RECURSIVE AnnotationSupplies(_, _)
AnnotationSupplies(annotations, i) ==
    IF i > Len(annotations) THEN <<>>
    ELSE (IF annotations[i].name \in {"Scheduled", "Schedule", "Quartz", "BatchJob", "Job"}
          THEN <<annotations[i].element.kind # "none">> ELSE <<>>)
         \o AnnotationSupplies(annotations, i + 1)

RECURSIVE MethodSupplies(_, _)
MethodSupplies(methods, j) ==
    IF j > Len(methods) THEN <<>>
    ELSE AnnotationSupplies(methods[j].annotations, 1) \o MethodSupplies(methods, j + 1)

RECURSIVE ClassSupplies(_, _)
ClassSupplies(classes, k) ==
    IF k > Len(classes) THEN <<>>
    ELSE (IF \E p \in {"BatchJob", "Job", "Processor", "Reader", "Writer", "TaskExecutor",
                       "Scheduler", "QuartzJob"} : Contains(classes[k].name, p)
          THEN <<FALSE>> ELSE <<>>)
         \o AnnotationSupplies(classes[k].annotations, 1)
         \o MethodSupplies(classes[k].methods, 1)
         \o ClassSupplies(classes, k + 1)

RuleSupplies(e) ==
    ClassSupplies(e.unit.tree.classes, 1)
    \o (IF Criterion4(e.unit.content) THEN <<JobMatch(e.unit.content).found>> ELSE <<>>)

\* C28: when the rule that last set the type of an entry of batch_processes
\* supplies no details value, the details of the entry are empty: they hold
\* no value of an earlier rule.
C28_DetailsOfLastRule ==
    \A i \in ParsedInFirstScan : \A k \in BatchFactsOf(Rel(fs[i])) :
        (RuleSupplies(fs[i]) # <<>> /\ ~RuleSupplies(fs[i])[Len(RuleSupplies(fs[i]))]) =>
            batch_processes[k].details = ""

\* The short names a class refers to itself: the types of the fields declared
\* in it, its interfaces and its superclass
OwnNames(node) ==
    {node.fields[f].type : f \in DOMAIN node.fields}
    \cup Range(node.implements) \cup ({node.extends} \ {""})

\* C29: every entry of the uses of a record is an import that ends in "."
\* followed by the type of a field declared in a class of the record's
\* qualified name, by its superclass or by one of its interfaces.
C29_UsesOfOwnFields ==
    \A d \in DOMAIN dependencies : \A u \in Range(dependencies[d].value.uses) :
        \E tree \in UnitsDeclaring(dependencies[d].key) : \E k \in DOMAIN tree.classes :
            /\ FullyQualifiedName(tree.package, tree.classes[k].name) = dependencies[d].key
            /\ \E n \in OwnNames(tree.classes[k]) : EndsWith(u, "." \o n)

\* The classes declared in the files javalang parsed: a place of fs and a
\* place among the classes of its tree
ClassesDeclared ==
    {ic \in (DOMAIN fs) \X (1..2) :
        /\ fs[ic[1]].unit.source = "ok"
        /\ InSeq(EntryPath(fs[ic[1]]), java_files)
        /\ ic[2] \in DOMAIN fs[ic[1]].unit.tree.classes}

\* C30: in the result of a scan, apis_count, batch_jobs and java_files of the
\* summary are the lengths of apis, batch_processes and java_files, and
\* total_classes is the number of classes declared in the parsed files.
C30_SummaryAgrees ==
    \A k \in DOMAIN returned :
        returned[k].call = 1 =>
            LET res == returned[k].result IN
            /\ res.project_summary.apis_count = Len(res.apis)
            /\ res.project_summary.batch_jobs = Len(res.batch_processes)
            /\ res.project_summary.java_files = Len(res.java_files)
            /\ res.project_summary.total_classes = Cardinality(ClassesDeclared)

====
